---- MODULE Spec2Model ----
(***************************************************************************)
(* WonderJournal: a model of the backend auth middleware and users routes  *)
(* (backend/middleware/auth.js), the Moment data-access model              *)
(* (backend/models/moment.js) and the frontend API client                  *)
(* (wonder-journal/src/api.js).                                            *)
(*                                                                         *)
(* JavaScript values are encoded as follows.                               *)
(*   - undefined, for a string-valued property, is the string Undefined;   *)
(*   - an optional argument is a sequence of length 0 (absent) or 1;       *)
(*   - a text (title, text, search term) is a sequence of one-character    *)
(*     strings, so that pattern matching is computed character by          *)
(*     character;                                                          *)
(*   - an Authorization header is a sequence of segments: the literal      *)
(*     prefixes, a whitespace character, or a token.                       *)
(***************************************************************************)
EXTENDS Integers, Sequences, FiniteSets, TLC

VARIABLES
    \* ---- backend request pipeline (auth.js)
    req,          \* the request object: headers, params, body, route, user
    pc,           \* position of the request in the middleware chain
    nextCalls,    \* the next(...) calls made so far for this request
    invoked,      \* the User model operation the route handler invoked
    \* ---- database (moment.js)
    users,        \* usernames of the rows of table users
    moments,      \* table moments: id -> [title, text, date, username]
    nextId,       \* the serial of moments.id
    moment_media, \* table moment_media: set of [id, type, url, moment_id]
    nextMediaId,  \* the serial of moment_media.id
    moments_tags, \* join table: set of <<moment_id, tag_id>>
    result,       \* the last Moment call: operation, arguments, outcome
    \* ---- frontend (api.js)
    token,        \* the module-level token
    apiResult     \* the last request(): what it sent and how it settled

authVars == <<req, pc, nextCalls, invoked>>
dbVars   == <<users, moments, nextId, moment_media, nextMediaId, moments_tags, result>>
apiVars  == <<token, apiResult>>
vars     == <<authVars, dbVars, apiVars>>

Undefined == "undefined"

\* JavaScript truthiness of a string-or-undefined value.
Truthy(v) == v \notin {Undefined, ""}

-----------------------------------------------------------------------------
(***************************************************************************)
(* Backend: middleware/auth.js and the users routes                        *)
(***************************************************************************)

SECRET_KEY == "SECRET_KEY"

\* The JWTs a client may send: the key that signed each and its payload.
\* key "none" is a string that is no JWT at all.
TokenTable ==
    [ tok_u1       |-> [key |-> SECRET_KEY, username |-> "u1",      isAdmin |-> FALSE],
      tok_u2       |-> [key |-> SECRET_KEY, username |-> "u2",      isAdmin |-> FALSE],
      tok_admin    |-> [key |-> SECRET_KEY, username |-> "admin",   isAdmin |-> TRUE],
      tok_nouser   |-> [key |-> SECRET_KEY, username |-> Undefined, isAdmin |-> FALSE],
      tok_emptyusr |-> [key |-> SECRET_KEY, username |-> "",        isAdmin |-> FALSE],
      tok_forged   |-> [key |-> "otherKey", username |-> "u1",      isAdmin |-> FALSE],
      tok_forgedad |-> [key |-> "otherKey", username |-> "admin",   isAdmin |-> TRUE],
      tok_garbage  |-> [key |-> "none",     username |-> Undefined, isAdmin |-> FALSE] ]

Tokens == DOMAIN TokenTable

\* Shapes of the Authorization header around a token t.  <<>> is the empty
\* string; NoHeader (below) is a request without the header.
HeaderShapes(t) ==
    { <<"Bearer ", t>>, <<"bearer ", t>>, <<"BEARER ", t>>, <<t>>,
      <<"Bearer ", " ", t, " ">>, <<" ", "Bearer ", t>>, <<"Bearer ", "Bearer ", t>> }

NoHeader == <<"<absent>">>

Headers == {NoHeader, <<>>, <<"Bearer ">>} \cup UNION {HeaderShapes(t) : t \in Tokens}

RouteParams == {Undefined, "u1", "u2"}

\* req.body: missing altogether, or an object whose username may be undefined.
Bodies == {[present |-> FALSE, username |-> Undefined]}
            \cup {[present |-> TRUE, username |-> u] : u \in {Undefined, "u1", "u2", ""}}

\* The routes of the users router.
UserRoutes == {"GET /users/:username", "PATCH /users/:username",
               "DELETE /users/:username", "GET /users/:username/moments"}
\* A route guarded by ensureLoggedIn, and a route guarded by ensureCorrectUser
\* whose path has no :username (the username then comes from the body).
LoggedInRoute == "loggedIn"
CorrectUserRoute == "correctUser"
Routes == UserRoutes \cup {LoggedInRoute, CorrectUserRoute}

\* Express only matches a /users/:username route with a non-empty :username.
ParamsOf(r) == IF r \in UserRoutes THEN RouteParams \ {Undefined} ELSE {Undefined}

NoUser == [set |-> FALSE, username |-> Undefined, isAdmin |-> FALSE]

\* authHeader.replace(/^[Bb]earer /, "")
StripBearer(h) ==
    IF Len(h) > 0 /\ h[1] \in {"Bearer ", "bearer "} THEN Tail(h) ELSE h

RECURSIVE TrimLeft(_)
TrimLeft(h) == IF Len(h) > 0 /\ h[1] = " " THEN TrimLeft(Tail(h)) ELSE h

RECURSIVE TrimRight(_)
TrimRight(h) ==
    IF Len(h) > 0 /\ h[Len(h)] = " " THEN TrimRight(SubSeq(h, 1, Len(h) - 1)) ELSE h

\* String.prototype.trim
Trim(h) == TrimLeft(TrimRight(h))

\* jwt.verify(token, SECRET_KEY) returns the payload; it throws on anything
\* that is not exactly one token signed with the key.
JwtVerifies(tok) ==
    /\ Len(tok) = 1
    /\ tok[1] \in Tokens
    /\ TokenTable[tok[1]].key = SECRET_KEY

JwtPayload(tok) ==
    [set |-> TRUE, username |-> TokenTable[tok[1]].username,
     isAdmin |-> TokenTable[tok[1]].isAdmin]

\* if (authHeader): a missing header and the empty string are both falsy.
HeaderTruthy(h) == h # NoHeader /\ h # <<>>

Call(by, err) == [by |-> by, err |-> err]

\* A request arrives; req.user is not set yet.
Receive ==
    /\ pc \in {"idle", "done"}
    /\ \E h \in Headers, b \in Bodies, r \in Routes : \E p \in ParamsOf(r) :
          req' = [authorization |-> h, params |-> p, body |-> b, route |-> r,
                  user |-> NoUser]
    /\ pc' = "received"
    /\ nextCalls' = <<>>
    /\ invoked' = "none"
    /\ UNCHANGED <<dbVars, apiVars>>

\* authenticateJWT whose catch hands the verification error to next(err).
authenticateJWT_PassesError ==
    /\ pc = "received"
    /\ LET authHeader == req.authorization
           tok == Trim(StripBearer(authHeader))
       IN  IF HeaderTruthy(authHeader) /\ ~JwtVerifies(tok)
           THEN /\ req' = req
                /\ nextCalls' = Append(nextCalls, Call("authenticateJWT", "JsonWebTokenError"))
                /\ pc' = "done"
           ELSE /\ req' = IF HeaderTruthy(authHeader)
                            THEN [req EXCEPT !.user = JwtPayload(tok)] ELSE req
                /\ nextCalls' = Append(nextCalls, Call("authenticateJWT", "none"))
                /\ pc' = "authenticated"
    /\ UNCHANGED <<invoked, dbVars, apiVars>>

\* function authenticateJWT(req, res, next)
authenticateJWT ==
    /\ pc = "received"
    /\ LET authHeader == req.authorization
           tok == Trim(StripBearer(authHeader))
       IN  IF HeaderTruthy(authHeader) /\ JwtVerifies(tok)
           THEN req' = [req EXCEPT !.user = JwtPayload(tok)]
           ELSE req' = req       \* no header, or jwt.verify threw: catch
    /\ nextCalls' = Append(nextCalls, Call("authenticateJWT", "none"))
    /\ pc' = "authenticated"
    /\ UNCHANGED <<invoked, dbVars, apiVars>>

\* ensureLoggedIn testing req.user alone (the check left commented out on
\* line 38).
ensureLoggedIn_UserOnly ==
    /\ pc = "authenticated"
    /\ req.route = LoggedInRoute
    /\ IF ~req.user.set
       THEN /\ nextCalls' = Append(nextCalls, Call("ensureLoggedIn", "UnauthorizedError"))
            /\ pc' = "done"
       ELSE /\ nextCalls' = Append(nextCalls, Call("ensureLoggedIn", "none"))
            /\ pc' = "handler"
    /\ UNCHANGED <<req, invoked, dbVars, apiVars>>

\* function ensureLoggedIn(req, res, next)
ensureLoggedIn ==
    /\ pc = "authenticated"
    /\ req.route = LoggedInRoute
    /\ IF ~(req.user.set /\ Truthy(req.user.username))
       THEN /\ nextCalls' = Append(nextCalls, Call("ensureLoggedIn", "UnauthorizedError"))
            /\ pc' = "done"
       ELSE /\ nextCalls' = Append(nextCalls, Call("ensureLoggedIn", "none"))
            /\ pc' = "handler"
    /\ UNCHANGED <<req, invoked, dbVars, apiVars>>

\* function ensureCorrectUser(req, res, next)
\*   user && user.username === (req.params.username || req.body.username)
\* Reading req.body.username of a missing body throws a TypeError, which the
\* catch hands to next(err).  && and || short-circuit.
ensureCorrectUser ==
    /\ pc = "authenticated"
    /\ req.route \in UserRoutes \cup {CorrectUserRoute}
    /\ LET user == req.user
           readsBody == user.set /\ ~Truthy(req.params)
           target == IF Truthy(req.params) THEN req.params ELSE req.body.username
           err == IF ~user.set THEN "UnauthorizedError"
                  ELSE IF readsBody /\ ~req.body.present THEN "TypeError"
                  ELSE IF user.username # target THEN "UnauthorizedError"
                  ELSE "none"
       IN  /\ nextCalls' = Append(nextCalls, Call("ensureCorrectUser", err))
           /\ pc' = IF err = "none" THEN "handler" ELSE "done"
    /\ UNCHANGED <<req, invoked, dbVars, apiVars>>

\* The User model operation each users route calls.
ModelOp(route) ==
    CASE route = "GET /users/:username"         -> "User.get"
      [] route = "PATCH /users/:username"       -> "User.update"
      [] route = "DELETE /users/:username"      -> "User.remove"
      [] route = "GET /users/:username/moments" -> "User.getMoments"
      [] OTHER                                  -> "handler"

\* The route handlers of the users router.  PATCH validates the body against
\* userUpdateSchema first and throws BadRequestError when it is not valid.
RouteHandler ==
    /\ pc = "handler"
    /\ \E valid \in BOOLEAN :
          IF req.route = "PATCH /users/:username" /\ ~valid
          THEN /\ invoked' = "none"
               /\ nextCalls' = Append(nextCalls, Call("handler", "BadRequestError"))
          ELSE /\ invoked' = ModelOp(req.route)
               /\ nextCalls' = nextCalls
    /\ pc' = "done"
    /\ UNCHANGED <<req, dbVars, apiVars>>

InitAuth ==
    /\ req = [authorization |-> NoHeader, params |-> Undefined,
              body |-> [present |-> FALSE, username |-> Undefined],
              route |-> LoggedInRoute, user |-> NoUser]
    /\ pc = "idle"
    /\ nextCalls = <<>>
    /\ invoked = "none"

\* ---- properties of the middleware chain

\* The request carried a header whose token, the Bearer prefix stripped,
\* verified against SECRET_KEY.
SentValidToken ==
    /\ req.authorization # NoHeader
    /\ JwtVerifies(Trim(StripBearer(req.authorization)))

CallsBy(name) == {i \in 1..Len(nextCalls) : nextCalls[i].by = name}

\* C1: authenticateJWT never rejects a request.  Once it has run, it has
\* called next() exactly once and without an error, whatever the header; and
\* req.user is the token's payload if and only if a header was present and its
\* token verified, and is unset otherwise.
C1_AuthenticateNeverRejects ==
    pc \in {"authenticated", "handler", "done"} =>
        /\ Cardinality(CallsBy("authenticateJWT")) = 1
        /\ nextCalls[1] = Call("authenticateJWT", "none")
        /\ req.user.set <=> SentValidToken
        /\ req.user.set =>
              req.user = JwtPayload(Trim(StripBearer(req.authorization)))
        /\ ~req.user.set => req.user = NoUser

\* C1 witness: a request with a forged token has passed authenticateJWT and
\* goes on unauthenticated.
C1_Witness ==
    /\ pc = "authenticated"
    /\ req.authorization = <<"Bearer ", "tok_forged">>
    /\ ~req.user.set

\* The username the claim C2 compares with: the route param, or, when there
\* is none, the username property of the body (none when the body is missing).
ClaimedTarget ==
    IF req.params # Undefined THEN req.params
    ELSE IF req.body.present THEN req.body.username
    ELSE Undefined

\* C2 (as claimed): ensureCorrectUser calls next() without an error only when
\* req.user is set and its username equals the route param or else the body's
\* username; in every other case (no user, mismatch, no username in params or
\* body, missing body) it calls next with an UnauthorizedError and with no
\* other error.
C2_CorrectUserOrUnauthorized ==
    (Len(nextCalls) >= 2 /\ nextCalls[2].by = "ensureCorrectUser") =>
        LET pass == /\ req.user.set
                    /\ ClaimedTarget # Undefined
                    /\ req.user.username = ClaimedTarget
        IN  /\ pass => nextCalls[2].err = "none"
            /\ ~pass => nextCalls[2].err = "UnauthorizedError"

\* C3 (as claimed): on each users route the model operation is invoked when
\* the authenticated requester is an admin or is :username, and the request
\* is rejected with Unauthorized, the operation not invoked, otherwise.
C3_AdminOrSameUser ==
    (req.route \in UserRoutes /\ pc \in {"handler", "done"}) =>
        LET allowed == /\ req.user.set
                       /\ (req.user.isAdmin \/ req.user.username = req.params)
        IN  /\ allowed => nextCalls[2].err = "none"
            /\ (allowed /\ pc = "done" /\ Len(nextCalls) = 2) =>
                  invoked = ModelOp(req.route)
            /\ ~allowed => /\ nextCalls[2].err = "UnauthorizedError"
                            /\ invoked = "none"

\* C4: behind authenticateJWT and ensureLoggedIn the handler is reached only
\* by a request whose token verified and whose payload has a username; any
\* other request gets next(UnauthorizedError) and never reaches the handler.
C4_LoggedInOnlyWithUsername ==
    (req.route = LoggedInRoute /\ pc \in {"handler", "done"}) =>
        LET ok == /\ SentValidToken
                  /\ Truthy(TokenTable[Trim(StripBearer(req.authorization))[1]].username)
        IN  /\ Cardinality(CallsBy("ensureLoggedIn")) = 1
            /\ ok => nextCalls[2] = Call("ensureLoggedIn", "none")
            /\ ~ok => /\ nextCalls[2] = Call("ensureLoggedIn", "UnauthorizedError")
                       /\ pc = "done"
                       /\ invoked = "none"
            /\ (pc = "handler" \/ invoked # "none") => ok

\* C4 witness: a verified token without a username was turned away by
\* ensureLoggedIn.
C4_Witness ==
    /\ pc = "done"
    /\ req.route = LoggedInRoute
    /\ req.user.set
    /\ req.user.username = Undefined
    /\ nextCalls[2] = Call("ensureLoggedIn", "UnauthorizedError")

-----------------------------------------------------------------------------
(***************************************************************************)
(* Backend: models/moment.js                                               *)
(***************************************************************************)

MaxId      == 2   \* moments.id values the serial hands out
MaxMediaId == 1   \* moment_media.id values the serial hands out

None == <<>>
Some(x) == <<x>>

\* Dates, as day numbers.
Dates == {1, 2}
Ids == 1..MaxId

\* Texts are sequences of characters.  "%" and "_" are ordinary characters of
\* a title or a search term, and wildcards of an SQL LIKE pattern.
Titles == {<<"A", "b">>, <<"b">>}
Texts  == {<<"a">>, <<"B", "a">>}

\* The entries a client creates.
MomentInputs == {[title |-> <<"A", "b">>, text |-> <<"a">>],
                 [title |-> <<"b">>, text |-> <<"B", "a">>]}

\* Table tags (not written by the Moment model): id -> name.
tags == <<"fun", "sad">>
TagIds == DOMAIN tags

MediaInputs == {[type |-> "image", url |-> "url1"]}

Lower(c) == CASE c = "A" -> "a" [] c = "B" -> "b" [] OTHER -> c

\* s LIKE p, case-insensitively (PostgreSQL ILIKE): "%" matches any run of
\* characters, "_" any one character, any other character itself.
RECURSIVE ILike(_, _)
ILike(s, p) ==
    IF p = <<>> THEN s = <<>>
    ELSE IF Head(p) = "%"
         THEN ILike(s, Tail(p)) \/ (s # <<>> /\ ILike(Tail(s), p))
    ELSE IF s = <<>> THEN FALSE
    ELSE /\ (Head(p) = "_" \/ Lower(Head(p)) = Lower(Head(s)))
         /\ ILike(Tail(s), Tail(p))

\* `%${term}%`
Wrap(term) == <<"%">> \o term \o <<"%">>

HasMoment(id) == \E m \in moments : m.id = id
MomentRow(id) == CHOOSE m \in moments : m.id = id

\* Rows of tags joined to a moment through moments_tags.
TagsOf(id) == {[id |-> t, name |-> tags[t]] : t \in {u \in TagIds : <<id, u>> \in moments_tags}}

\* Rows of moment_media of a moment, as Moment.get selects them.
MediaOf(id) ==
    {[id |-> x.id, url |-> x.url, type |-> x.type] : x \in {y \in moment_media : y.moment_id = id}}

\* helpers/sql.js sqlForPartialInsert: one column per key of data.
sqlForPartialInsert(data) == [insertCols |-> {"title", "text", "username"}
                                 \cup (IF data.date # None THEN {"date"} ELSE {})]

\* helpers/sql.js sqlForPartialUpdate: one "col"=$n per key of data.
sqlForPartialUpdate(data) ==
    [setCols |-> {k \in {"title", "text", "date"} : data[k] # None}]

\* static async create(data)
\* A date left out of data is filled in by the column default.
Create ==
    /\ nextId <= MaxId
    /\ \E input \in MomentInputs, u \in users, d \in {None} \cup {Some(v) : v \in Dates},
          dflt \in Dates :
          LET data == [title |-> input.title, text |-> input.text, username |-> u, date |-> d]
              cols == sqlForPartialInsert(data).insertCols
              row  == [id |-> nextId, title |-> data.title, text |-> data.text,
                       username |-> u,
                       date |-> IF "date" \in cols THEN d[1] ELSE dflt]
          IN  /\ moments' = moments \cup {row}
              /\ result' = [op |-> "create", err |-> "none", ret |-> row]
    /\ nextId' = nextId + 1
    /\ UNCHANGED <<users, moment_media, nextMediaId, moments_tags, authVars, apiVars>>

SearchUsernames == {"u1", "u2", "ghost"}

\* searchFilters: every property optional.
SearchFilters ==
    { f \in [ tag       : {None} \cup {Some(n) : n \in {"fun", "sad"}},
              title     : {None} \cup {Some(t) : t \in {<<>>, <<"a", "B">>, <<"_">>}},
              text      : {None} \cup {Some(t) : t \in {<<"A">>, <<"%", "b">>}},
              dateStart : {None} \cup {Some(d) : d \in Dates},
              dateEnd   : {None} \cup {Some(d) : d \in Dates},
              hasMedia  : {None, Some(TRUE)} ] :
        LET given == {k \in DOMAIN f : f[k] # None}
        IN  \/ Cardinality(given) <= 1
            \/ given = {"dateStart", "dateEnd"}
            \/ given = {"title", "tag"} }

\* The WHERE and HAVING clauses findAll builds, for one moment.
Selected(m, username, f) ==
    /\ (username # "" => m.username = username)
    /\ (f.title # None => ILike(m.title, Wrap(f.title[1])))
    /\ (f.text # None => ILike(m.text, Wrap(f.text[1])))
    /\ (f.dateStart # None => m.date >= f.dateStart[1])
    /\ (f.dateEnd # None => m.date <= f.dateEnd[1])
    /\ (f.tag # None => f.tag[1] \in {t.name : t \in TagsOf(m.id)})

\* The SELECT list: one row per moment (GROUP BY m.id), its tags aggregated.
Listed(m) == [id |-> m.id, title |-> m.title, text |-> m.text, date |-> m.date,
              tags |-> TagsOf(m.id)]

\* ORDER BY m.date DESC: any order of the rows with the dates not increasing.
OrderedByDateDesc(rows) ==
    { q \in [1..Cardinality(rows) -> rows] :
        /\ {q[i] : i \in DOMAIN q} = rows
        /\ \A i, j \in DOMAIN q : i < j => q[i].date >= q[j].date }

\* static async findAll(username, searchFilters = {})
FindAll ==
    /\ \E username \in SearchUsernames, f \in SearchFilters :
          IF username \notin users
          THEN result' = [op |-> "findAll", username |-> username, filters |-> f,
                          err |-> "NotFoundError", ret |-> <<>>]
          ELSE \E q \in OrderedByDateDesc(
                          {Listed(m) : m \in {x \in moments : Selected(x, username, f)}}) :
                  result' = [op |-> "findAll", username |-> username, filters |-> f,
                             err |-> "none", ret |-> q]
    /\ UNCHANGED <<users, moments, nextId, moment_media, nextMediaId, moments_tags,
                   authVars, apiVars>>

\* static async get(id)
Get ==
    /\ \E id \in Ids :
          IF ~HasMoment(id)
          THEN result' = [op |-> "get", id |-> id, err |-> "NotFoundError"]
          ELSE result' = [op |-> "get", id |-> id, err |-> "none",
                          ret |-> [moment |-> MomentRow(id), media |-> MediaOf(id),
                                   tags |-> TagsOf(id)]]
    /\ UNCHANGED <<users, moments, nextId, moment_media, nextMediaId, moments_tags,
                   authVars, apiVars>>

UpdateData ==
    [ title : {None} \cup {Some(t) : t \in Titles},
      text  : {None, Some(<<"a">>)},
      date  : {None} \cup {Some(d) : d \in Dates} ]

\* SET over every column, a column left out of data set to the empty value.
SetColumns_Overwrite(m, data) ==
    [m EXCEPT !.title = IF data.title # None THEN data.title[1] ELSE <<>>,
              !.text  = IF data.text # None THEN data.text[1] ELSE <<>>,
              !.date  = IF data.date # None THEN data.date[1] ELSE @]

\* UPDATE moments SET ${setCols}: the row with the listed columns replaced.
SetColumns(m, data) ==
    LET setCols == sqlForPartialUpdate(data).setCols
    IN  [m EXCEPT !.title = IF "title" \in setCols THEN data.title[1] ELSE @,
                  !.text  = IF "text" \in setCols THEN data.text[1] ELSE @,
                  !.date  = IF "date" \in setCols THEN data.date[1] ELSE @]

\* static async update(id, data)
\* With no key in data there is nothing after SET: sqlForPartialUpdate throws
\* BadRequestError, or the statement is no SQL and the query throws.
Update ==
    /\ \E id \in Ids, data \in UpdateData :
          IF sqlForPartialUpdate(data).setCols = {}
          THEN /\ \E e \in {"BadRequestError", "DatabaseError"} :
                     result' = [op |-> "update", id |-> id, data |-> data, err |-> e]
               /\ moments' = moments
          ELSE IF ~HasMoment(id)
          THEN /\ result' = [op |-> "update", id |-> id, data |-> data,
                             err |-> "NotFoundError"]
               /\ moments' = moments
          ELSE LET row == SetColumns(MomentRow(id), data)
               IN  /\ moments' = (moments \ {MomentRow(id)}) \cup {row}
                   /\ result' = [op |-> "update", id |-> id, data |-> data,
                                 err |-> "none", ret |-> row]
    /\ UNCHANGED <<users, nextId, moment_media, nextMediaId, moments_tags, authVars, apiVars>>

\* Remove that returns undefined whether or not a row was deleted.
Remove_NoNotFound ==
    /\ \E id \in Ids :
          /\ result' = [op |-> "remove", id |-> id, err |-> "none"]
          /\ moments' = {m \in moments : m.id # id}
          /\ moment_media' = {x \in moment_media : x.moment_id # id}
          /\ moments_tags' = {p \in moments_tags : p[1] # id}
    /\ UNCHANGED <<users, nextId, nextMediaId, authVars, apiVars>>

\* static async remove(id)
\* The rows of moment_media and moments_tags of the moment go with it (foreign
\* keys of the schema).
Remove ==
    /\ \E id \in Ids :
          IF ~HasMoment(id)
          THEN /\ result' = [op |-> "remove", id |-> id, err |-> "NotFoundError"]
               /\ UNCHANGED <<moments, moment_media, moments_tags>>
          ELSE /\ result' = [op |-> "remove", id |-> id, err |-> "none"]
               /\ moments' = {m \in moments : m.id # id}
               /\ moment_media' = {x \in moment_media : x.moment_id # id}
               /\ moments_tags' = {p \in moments_tags : p[1] # id}
    /\ UNCHANGED <<users, nextId, nextMediaId, authVars, apiVars>>

\* static async addMedia(momentId, { type, url })
\* The statement aliases a column AS 'momentId', a string literal where SQL
\* wants an identifier: PostgreSQL rejects it and db.query throws.  Were the
\* statement accepted, the row would be inserted and line 225 would then read
\* `results`, which is declared nowhere: a ReferenceError.  Both are modelled.
AddMedia ==
    /\ \E momentId \in Ids, data \in MediaInputs :
          \/ /\ result' = [op |-> "addMedia", momentId |-> momentId, data |-> data,
                           err |-> "DatabaseError"]
             /\ UNCHANGED <<moment_media, nextMediaId>>
          \/ /\ HasMoment(momentId)
             /\ nextMediaId <= MaxMediaId
             /\ moment_media' = moment_media \cup
                   {[id |-> nextMediaId, type |-> data.type, url |-> data.url,
                     moment_id |-> momentId]}
             /\ nextMediaId' = nextMediaId + 1
             /\ result' = [op |-> "addMedia", momentId |-> momentId, data |-> data,
                           err |-> "ReferenceError"]
    /\ UNCHANGED <<users, moments, nextId, moments_tags, authVars, apiVars>>

\* static async removeMedia(momentMediaId)
RemoveMedia ==
    /\ \E momentMediaId \in 1..MaxMediaId :
          /\ moment_media' = {x \in moment_media : x.id # momentMediaId}
          /\ result' = [op |-> "removeMedia", id |-> momentMediaId, err |-> "none"]
    /\ UNCHANGED <<users, moments, nextId, nextMediaId, moments_tags, authVars, apiVars>>

\* static async applyTag(momentId, tagId)
\* The insert fails on a moment that does not exist and on a pair already in
\* the join table (foreign key and uniqueness of the schema).
ApplyTag ==
    /\ \E momentId \in Ids, tagId \in TagIds :
          IF HasMoment(momentId) /\ <<momentId, tagId>> \notin moments_tags
          THEN /\ moments_tags' = moments_tags \cup {<<momentId, tagId>>}
               /\ result' = [op |-> "applyTag", err |-> "none",
                             ret |-> [moment_id |-> momentId, tag_id |-> tagId]]
          ELSE /\ moments_tags' = moments_tags
               /\ result' = [op |-> "applyTag", err |-> "DatabaseError",
                             ret |-> [moment_id |-> momentId, tag_id |-> tagId]]
    /\ UNCHANGED <<users, moments, nextId, moment_media, nextMediaId, authVars, apiVars>>

\* static async removeTag(momentId, tagId)
RemoveTag ==
    /\ \E momentId \in Ids, tagId \in TagIds :
          /\ moments_tags' = moments_tags \ {<<momentId, tagId>>}
          /\ result' = [op |-> "removeTag", err |-> "none",
                        ret |-> [moment_id |-> momentId, tag_id |-> tagId]]
    /\ UNCHANGED <<users, moments, nextId, moment_media, nextMediaId, authVars, apiVars>>

InitDb ==
    /\ users = {"u1", "u2"}
    /\ moments = {}
    /\ nextId = 1
    /\ moment_media = {}
    /\ nextMediaId = 1
    /\ moments_tags = {}
    /\ result = [op |-> "none"]

\* ---- properties of the Moment model

UpdatableColumns == {"title", "text", "date"}
MomentColumns == {"id", "title", "text", "date", "username"}

\* C7 (amended): Moment.update(id, data) with at least one of title, text,
\* date in data is a partial update.  When the moment exists, exactly the
\* fields present in data take the given values, its other fields and every
\* other moment stay unchanged, and the updated row { id, title, text, date,
\* username } is returned; when it does not exist, NotFoundError is thrown and
\* no row changes.  With no field in data the call throws another error,
\* whether or not the moment exists, and no row changes.
C7_PartialUpdateStep ==
    result'.op = "update" =>
        LET id    == result'.id
            data  == result'.data
            given == {k \in UpdatableColumns : data[k] # None}
        IN  /\ UNCHANGED <<users, nextId, moment_media, nextMediaId, moments_tags>>
            /\ IF given = {}
               THEN /\ result'.err \in {"BadRequestError", "DatabaseError"}
                    /\ moments' = moments
               ELSE IF HasMoment(id)
               THEN /\ result'.err = "none"
                    /\ result'.ret \in moments'
                    /\ result'.ret.id = id
                    /\ \A k \in given : result'.ret[k] = data[k][1]
                    /\ \A k \in MomentColumns \ given : result'.ret[k] = MomentRow(id)[k]
                    /\ {m \in moments' : m.id # id} = {m \in moments : m.id # id}
                    /\ Cardinality({m \in moments' : m.id = id}) = 1
               ELSE /\ result'.err = "NotFoundError"
                    /\ moments' = moments

C8_RemoveStep ==
    /\ result'.op = "remove" =>
          IF HasMoment(result'.id)
          THEN /\ result'.err = "none"
               /\ "ret" \notin DOMAIN result'
               /\ moments' = moments \ {MomentRow(result'.id)}
               /\ \A m \in moments' : m.id # result'.id
          ELSE /\ result'.err = "NotFoundError"
               /\ moments' = moments
    /\ (result'.op = "get" /\ ~HasMoment(result'.id)) => result'.err = "NotFoundError"
    /\ \A id \in Ids : (id < nextId /\ ~HasMoment(id)) => \A m \in moments' : m.id # id

C8_RemoveThenNotFound == [][C8_RemoveStep]_vars

\* C8 witness: remove was called on an id that had been handed out and is no
\* longer in the table (a second remove), and threw NotFoundError, another
\* moment still being there.
C8_Witness ==
    /\ result.op = "remove"
    /\ result.err = "NotFoundError"
    /\ result.id < nextId
    /\ moments # {}

\* C9 (as claimed): addMedia on a moment adds one media row to it and returns
\* the row, which Moment.get then lists.
C9_Original ==
    (result.op = "addMedia" /\ HasMoment(result.momentId)) =>
        /\ result.err = "none"
        /\ \E x \in MediaOf(result.momentId) :
              x.type = result.data.type /\ x.url = result.data.url

LowerText(s) == [i \in DOMAIN s |-> Lower(s[i])]

\* term occurs in s, letter case aside.
ContainsText(s, term) ==
    \E i \in 0..Len(s) :
        /\ i + Len(term) <= Len(s)
        /\ SubSeq(LowerText(s), i + 1, i + Len(term)) = LowerText(term)

\* The moments C5 says findAll returns.
C5_Expected(username, f) ==
    { m \in moments :
        /\ m.username = username
        /\ (f.title # None => ContainsText(m.title, f.title[1]))
        /\ (f.text # None => ContainsText(m.text, f.text[1]))
        /\ (f.dateStart # None => f.dateStart[1] <= m.date)
        /\ (f.dateEnd # None => m.date <= f.dateEnd[1])
        /\ (f.tag # None => \E t \in TagIds : <<m.id, t>> \in moments_tags /\ tags[t] = f.tag[1]) }

\* C5 (as claimed): findAll throws NotFoundError for an unknown username;
\* otherwise it returns exactly the user's moments that satisfy every filter
\* given (title and text as case-insensitive partial matches, the date within
\* dateStart..dateEnd, the tag carried), each once, with all its tags, by
\* date descending.
C5_Original ==
    result.op = "findAll" =>
        IF result.username \notin users
        THEN result.err = "NotFoundError"
        ELSE LET ret == result.ret
                 expected == C5_Expected(result.username, result.filters)
             IN  /\ result.err = "none"
                 /\ {ret[i].id : i \in DOMAIN ret} = {m.id : m \in expected}
                 /\ Len(ret) = Cardinality(expected)
                 /\ \A i \in DOMAIN ret :
                       /\ ret[i].tags = TagsOf(ret[i].id)
                       /\ ret[i].title = MomentRow(ret[i].id).title
                       /\ ret[i].text = MomentRow(ret[i].id).text
                       /\ ret[i].date = MomentRow(ret[i].id).date
                 /\ \A i, j \in DOMAIN ret : i < j => ret[i].date >= ret[j].date

\* C6 (as claimed): with hasMedia = true findAll returns only moments that
\* have a row in moment_media.
C6_Original ==
    (result.op = "findAll" /\ result.err = "none"
        /\ result.filters.hasMedia = Some(TRUE)) =>
        \A i \in DOMAIN result.ret : MediaOf(result.ret[i].id) # {}

-----------------------------------------------------------------------------
(***************************************************************************)
(* Frontend: wonder-journal/src/api.js                                     *)
(***************************************************************************)

BASE_URL == "http://localhost:3001"

ApiTokens == {Undefined, "tok_u1", "tok_u2"}
Endpoints == {"auth/token", "users/u1", "moments/"}
Methods == {"get", "post", "patch"}
RequestData == {"{}", "{username,password}"}

\* How the axios call settles.  An error carries err.response only when the
\* server answered; the answer's body is this API's { error: { message } }
\* with one message or an array of them, or a body of another shape (a
\* proxy's error page).
AxiosOutcomes ==
    { [kind |-> "response", body |-> "data"],
      [kind |-> "error", response |-> TRUE, hasError |-> TRUE, message |-> "one"],
      [kind |-> "error", response |-> TRUE, hasError |-> TRUE, message |-> "array"],
      [kind |-> "error", response |-> TRUE, hasError |-> FALSE, message |-> "none"],
      [kind |-> "error", response |-> FALSE, hasError |-> FALSE, message |-> "none"] }

\* function setApiToken(newToken)
setApiToken ==
    /\ \E newToken \in ApiTokens : token' = newToken
    /\ UNCHANGED <<apiResult, authVars, dbVars>>

\* What request() hands to axios.
Sent(endpoint, data, method) ==
    [url |-> <<BASE_URL, "/", endpoint>>, method |-> method, data |-> data,
     params |-> IF method = "get" THEN data ELSE "{}",
     headers |-> <<"Bearer ", token>>]

\* async function request(endpoint, data = {}, method = "get")
\* In the catch, err.response.data.error.message throws a TypeError when
\* err.response or the body's error is undefined.
request ==
    /\ \E endpoint \in Endpoints, data \in RequestData, method \in Methods,
          out \in AxiosOutcomes :
          LET sent == Sent(endpoint, data, method)
          IN  IF out.kind = "response"
              THEN apiResult' = [state |-> "resolved", sent |-> sent, outcome |-> out,
                                 value |-> out.body]
              ELSE IF ~out.response \/ ~out.hasError
              THEN apiResult' = [state |-> "rejected", sent |-> sent, outcome |-> out,
                                 thrown |-> [kind |-> "TypeError", messages |-> <<>>]]
              ELSE IF out.message = "array"
              THEN apiResult' = [state |-> "rejected", sent |-> sent, outcome |-> out,
                                 thrown |-> [kind |-> "array", messages |-> <<"m1", "m2">>]]
              ELSE apiResult' = [state |-> "rejected", sent |-> sent, outcome |-> out,
                                 thrown |-> [kind |-> "array", messages |-> <<"m1">>]]
    /\ UNCHANGED <<token, authVars, dbVars>>

\* C10 (as claimed): request either resolves with the response body or, for
\* every way the HTTP call fails (one message, an array of messages, no
\* response at all), rejects with an array of error messages and nothing else.
C10_Original ==
    /\ apiResult.state = "resolved" => apiResult.value = apiResult.outcome.body
    /\ apiResult.state = "rejected" =>
          /\ apiResult.thrown.kind = "array"
          /\ Len(apiResult.thrown.messages) >= 1

-----------------------------------------------------------------------------
(***************************************************************************)
(* Initial state and specifications                                        *)
(***************************************************************************)

InitApi ==
    /\ token = Undefined
    /\ apiResult = [state |-> "none"]

Init == InitAuth /\ InitDb /\ InitApi

NextAuth ==
    \/ Receive
    \/ authenticateJWT
    \/ ensureLoggedIn
    \/ ensureCorrectUser
    \/ RouteHandler

SpecAuth == Init /\ [][NextAuth]_vars

\* Creating, reading, updating and deleting moments.
NextMoments ==
    \/ Create
    \/ Get
    \/ Update
    \/ Remove

SpecMoments == Init /\ [][NextMoments]_vars

\* Moments and their media.
NextMedia ==
    \/ Create
    \/ Get
    \/ Remove
    \/ AddMedia
    \/ RemoveMedia

SpecMedia == Init /\ [][NextMedia]_vars

\* Tagging moments and searching them.
NextSearch ==
    \/ Create
    \/ ApplyTag
    \/ RemoveTag
    \/ FindAll

SpecSearch == Init /\ [][NextSearch]_vars

NextApi ==
    \/ setApiToken
    \/ request

SpecApi == Init /\ [][NextApi]_vars

====
